---- MODULE Spec2Model ----
(***************************************************************************)
(* Model of the voice-input layer of the ChatKit starter app:              *)
(*   - useSpeechRecognition (src/unnamed/part_002, second hook, l.183-368) *)
(*   - VoiceInputButton     (src/unnamed/part_001)                         *)
(*   - the dictation dedup patch (src/app/layout.tsx, l.27-124)            *)
(* JavaScript strings are sequences of one-character strings.              *)
(***************************************************************************)
EXTENDS Naturals, Sequences, FiniteSets, TLC

(***************************************************************************)
(* Bounds of the model                                                     *)
(***************************************************************************)
\* longest transcript the engine is allowed to build up
MaxTranscript == 3
\* pending 50 ms callbacks of startListening
MaxTimers == 2
\* pending 100 ms retry callbacks
MaxRetries == 1

(***************************************************************************)
(* JavaScript string operations                                            *)
(***************************************************************************)
Empty == << >>

\* String.prototype.slice(start) for 0 <= start
Slice(s, start) ==
  IF start >= Len(s) THEN Empty ELSE SubSeq(s, start + 1, Len(s))

RECURSIVE TrimStart(_)
TrimStart(s) ==
  IF s # Empty /\ Head(s) = " " THEN TrimStart(Tail(s)) ELSE s

RECURSIVE TrimEnd(_)
TrimEnd(s) ==
  IF s # Empty /\ s[Len(s)] = " " THEN TrimEnd(SubSeq(s, 1, Len(s) - 1)) ELSE s

\* String.prototype.trim()
Trim(s) == TrimEnd(TrimStart(s))

\* String.prototype.includes(p)
Includes(s, p) ==
  \E i \in 1..(Len(s) + 1) :
    /\ i + Len(p) - 1 <= Len(s)
    /\ SubSeq(s, i, i + Len(p) - 1) = p

\* String.prototype.split(sep).length for a non-empty separator: the
\* occurrences are taken left to right without overlap
RECURSIVE SplitLength(_, _)
SplitLength(s, sep) ==
  IF Len(s) < Len(sep) THEN 1
  ELSE IF SubSeq(s, 1, Len(sep)) = sep
       THEN 1 + SplitLength(Slice(s, Len(sep)), sep)
       ELSE SplitLength(Tail(s), sep)

\* String.prototype.toLowerCase() on the letters the engine's texts use
LowerChar(c) ==
  CASE c = "A" -> "a"
    [] c = "I" -> "i"
    [] c = "S" -> "s"
    [] c = "E" -> "e"
    [] OTHER -> c

ToLowerCase(s) == [i \in 1..Len(s) |-> LowerChar(s[i])]

\* the characters of s that are not blanks (what "up to whitespace" keeps)
RECURSIVE NoSpace(_)
NoSpace(s) ==
  IF s = Empty THEN Empty
  ELSE IF Head(s) = " " THEN NoSpace(Tail(s))
       ELSE <<Head(s)>> \o NoSpace(Tail(s))

(***************************************************************************)
(* The speech engine's vocabulary (W3C SpeechRecognitionErrorCode, and the *)
(* messages of the exceptions start() throws)                              *)
(***************************************************************************)
Aborted == <<"a","b","o","r","t","e","d">>
NoSpeech == <<"n","o","-","s","p","e","e","c","h">>
AudioCapture == <<"a","u","d","i","o","-","c","a","p","t","u","r","e">>
Network == <<"n","e","t","w","o","r","k">>
NotAllowed == <<"n","o","t","-","a","l","l","o","w","e","d">>

ErrorCodes == {Aborted, NoSpeech, AudioCapture, Network, NotAllowed}

\* messages of the exceptions thrown by start()
MsgAborted == <<"A","b","o","r","t","e","d">>
MsgInvalidState == <<"I","n","v","a","l","i","d","S","t","a","t","e">>

\* start() either returns or throws an Error with one of the messages
StartOutcomes == {Empty, MsgAborted, MsgInvalidState}

\* the texts of the results the engine delivers
Texts == {<<"a">>, <<" ", "b">>, <<" ">>}

\* one SpeechRecognitionResult: its first alternative's text and isFinal
Results == [transcript : Texts, isFinal : BOOLEAN]

\* the results of one event (event.results from event.resultIndex on): one
\* result, or two
ResultEvents ==
  {<<r>> : r \in Results} \cup {<<r, q>> : r \in Results, q \in Results}

(***************************************************************************)
(* The dictation patch's inputs                                            *)
(***************************************************************************)
\* longest text typed or dictated into a field, the examples apart
MaxField == 2

\* most debounce callbacks pending at once that the timer ids can tell apart
MaxPending == 2

\* let debounceTimer = null
NoTimer == 0

\* an INPUT or TEXTAREA, and a contentEditable element
Fields == {"input", "editable"}

Bonjour == <<"B","o","n","j","o","u","r">>
HelloWorld == <<"H","e","l","l","o"," ","w","o","r","l","d">>

\* the texts the user's typing or the dictation leaves in a field
Values ==
  UNION {[1..n -> {"a", "b"}] : n \in 0..MaxField}
    \cup {Bonjour, Bonjour \o Bonjour, HelloWorld}

(***************************************************************************)
(* The positioning effect's constants and inputs                           *)
(***************************************************************************)
\* setInterval(findWrapperAndPositionButton, 500)
PollMs == 500
\* setTimeout(() => clearInterval(interval), 10000)
WarmupMs == 10000
\* containerRect.right - wrapperRect.right + 190
RightOffset == 190
\* containerRect.bottom - wrapperRect.bottom + 32
BottomOffset == 32
\* { right: "210px", bottom: "32px" }
DefaultRight == 210
DefaultBottom == 32

\* most ticks of the interval followed
MaxPolls == 22

\* useState<{ right: number; bottom: number } | null>(null)
NoPosition == [set |-> FALSE, right |-> 0, bottom |-> 0]

\* distances between the container's and the wrapper's edges
Gaps == {0, 8}

\* what the two querySelector calls find: no .ck-wrapper, or one at some
\* distances from the container's right and bottom edges
Wrappers ==
  {[found |-> FALSE, right |-> 0, bottom |-> 0]}
    \cup [found : {TRUE}, right : Gaps, bottom : Gaps]

(***************************************************************************)
(* State                                                                   *)
(***************************************************************************)
VARIABLES
  supported,          \* window.SpeechRecognition || webkitSpeechRecognition
  mounted,            \* the component is mounted
  engine,             \* the browser's recogniser: idle, running, stopping, ending
  isListening,        \* useState, latest value (updates queued included)
  transcript,         \* useState, latest value
  error,              \* useState, latest value
  rIsListening,       \* isListening as of the last render (what closures see)
  rTranscript,        \* transcript as of the last render
  isStartingRef,      \* isStartingRef.current
  lastTranscriptRef,  \* lastTranscriptRef.current
  startTimers,        \* pending 50 ms callbacks of startListening
  retryTimers,        \* pending 100 ms retry callbacks
  \* positioning effect of VoiceInputButton
  observerOn, resizeOn, intervalOn, warmupOn,
  buttonPosition,     \* useState: null, or the { right, bottom } computed last
  polls,              \* ticks of the 500 ms interval so far
  \* history (not program state)
  invoked,            \* onTranscriptUpdate has been called
  fedS,               \* non-blank text of the final results since start()
  sentS,              \* non-blank text passed to onTranscriptUpdate since start()
  fwdLen,             \* length of the prefix of transcript already forwarded
  oldFwd,             \* fwdLen as of the last stop click
  phase,              \* 0, 1 after a stop click, 2 after a start click following it
  resentOld,          \* text forwarded before the stop was passed again after the restart
  clickOdd,           \* the number of clicks counted so far is odd
  deadClick,          \* a click landed on the disabled button
  startedInSession,   \* start() has returned since the last end, error or stopListening
  joined,             \* the final results since start(), joined by single blanks
  \* the dictation patch of layout.tsx
  attached,           \* attachListeners has added handleInput to the roots
  fields,             \* the editable elements' texts
  lastInputValue,     \* lastInputValue
  timers,             \* the pending debounce callbacks: timer id, e.target of
                      \* the closure, and the kind of event that set it
  debounceTimer       \* debounceTimer: a timer id, NoTimer for null

hookVars == <<supported, mounted, engine, isListening, transcript, error,
              rIsListening, rTranscript, isStartingRef, lastTranscriptRef,
              startTimers, retryTimers>>
posVars == <<observerOn, resizeOn, intervalOn, warmupOn, buttonPosition, polls>>
histVars == <<invoked, fedS, sentS, fwdLen, oldFwd, phase, resentOld, clickOdd,
              deadClick, startedInSession, joined>>
patchVars == <<attached, fields, lastInputValue, timers, debounceTimer>>
vars == <<hookVars, posVars, histVars, patchVars>>

(***************************************************************************)
(* useSpeechRecognition                                                    *)
(***************************************************************************)
ErrNull == [kind |-> "null", code |-> Empty]
ErrUnsupported == [kind |-> "unsupported", code |-> Empty]
ErrUnavailable == [kind |-> "unavailable", code |-> Empty]
ErrFailedStart == [kind |-> "failed-start", code |-> Empty]
\* `Speech recognition error: ${event.error}`
ErrEngine(code) == [kind |-> "engine", code |-> code]

\* recognitionRef.current !== null: set by the mount effect, never cleared
recognitionRef == supported

\* isSupported without the probe of the two constructors
isSupportedUnprobed == TRUE

\* isSupported, computed on every render
isSupported == supported

\* setX(v) of a useState setter: ignored once the component is unmounted
SetState(old, new) == IF mounted THEN new ELSE old

\* recognition.stop()
EngineStop(e) == IF e = "running" THEN "stopping" ELSE e

\* recognition.start(): throws InvalidStateError while started, and may fail
\* otherwise; Empty stands for a normal return
EngineStart(e) ==
  IF e \in {"running", "stopping"} THEN {MsgInvalidState} ELSE StartOutcomes

\* the result listener's loop: the final results' texts, each followed by a blank
RECURSIVE FinalTranscript(_)
FinalTranscript(ev) ==
  IF ev = Empty THEN Empty
  ELSE (IF Head(ev).isFinal THEN Head(ev).transcript \o <<" ">> ELSE Empty)
       \o FinalTranscript(Tail(ev))

HasFinalResults(ev) == \E i \in 1..Len(ev) : ev[i].isFinal

\* the listener's loop taking the interim results' texts too
RECURSIVE AnyTranscript(_)
AnyTranscript(ev) ==
  IF ev = Empty THEN Empty
  ELSE Head(ev).transcript \o <<" ">> \o AnyTranscript(Tail(ev))

\* the new transcript of a listener that does not tell interim from final
ResultTranscriptWithInterim(prev, ev) ==
  IF Trim(AnyTranscript(ev)) # Empty
  THEN Trim(prev \o <<" ">> \o AnyTranscript(ev))
  ELSE prev

\* the result listener's new transcript
ResultTranscript(prev, ev) ==
  IF HasFinalResults(ev) /\ Trim(FinalTranscript(ev)) # Empty
  THEN Trim(prev \o <<" ">> \o FinalTranscript(ev))
  ELSE prev

\* the classification without its "audio-capture" case
IsBenignNoCapture(code) ==
  LET errorType == ToLowerCase(code) IN
  \/ errorType = Aborted \/ Includes(errorType, Aborted)
  \/ errorType = NoSpeech

\* the error listener's classification
IsBenign(code) ==
  LET errorType == ToLowerCase(code) IN
  \/ errorType = Aborted \/ Includes(errorType, Aborted)
  \/ errorType = NoSpeech \/ errorType = AudioCapture

\* the error listener's setError argument
ErrorAfter(code) == IF IsBenign(code) THEN ErrNull ELSE ErrEngine(code)

\* isAborted of startListening's catch blocks
IsAbortedMessage(msg) == Includes(ToLowerCase(msg), Aborted)

(***************************************************************************)
(* VoiceInputButton                                                        *)
(***************************************************************************)
\* what the history keeps of the text passed to onTranscriptUpdate
Keep(s) == IF Len(s) > MaxTranscript + 1 THEN SubSeq(s, 1, MaxTranscript + 1) ELSE s

\* disabled={!isSupported}
ButtonDisabled == ~isSupported

\* the transcript effect: what it passes to onTranscriptUpdate, if anything,
\* and the new lastTranscriptRef.current
DeltaEffect(tr, last) ==
  IF tr # Empty /\ tr # last
  THEN LET newPart == Trim(Slice(tr, Len(last))) IN
       IF newPart # Empty
       THEN [called |-> TRUE, arg |-> newPart, last |-> tr]
       ELSE [called |-> FALSE, arg |-> Empty, last |-> last]
  ELSE [called |-> FALSE, arg |-> Empty, last |-> last]

\* a render and its effects: the closures see the latest state, and the
\* transcript effect runs when one of its dependencies changed
Commit(isL, tr, last, fwd, old, ph, rerun) ==
  LET eff == IF rerun \/ tr # rTranscript
             THEN DeltaEffect(tr, last)
             ELSE [called |-> FALSE, arg |-> Empty, last |-> last] IN
  /\ rIsListening' = isL
  /\ rTranscript' = tr
  /\ lastTranscriptRef' = eff.last
  /\ invoked' = (invoked \/ eff.called)
  /\ sentS' = IF eff.called THEN Keep(sentS \o NoSpace(eff.arg)) ELSE sentS
  /\ fwdLen' = IF eff.called THEN Len(tr) ELSE fwd
  /\ oldFwd' = old
  /\ phase' = ph
  /\ resentOld' = (resentOld \/ (ph = 2 /\ eff.called /\ Len(last) < old))

(***************************************************************************)
(* Initial state: the component is mounted in a container and its mount    *)
(* effects have run                                                        *)
(***************************************************************************)
Init ==
  /\ supported \in BOOLEAN
  /\ mounted = TRUE
  /\ engine = "idle"
  /\ isListening = FALSE
  /\ transcript = Empty
  /\ error = IF supported THEN ErrNull ELSE ErrUnsupported
  /\ rIsListening = FALSE
  /\ rTranscript = Empty
  /\ isStartingRef = FALSE
  /\ lastTranscriptRef = Empty
  /\ startTimers = 0
  /\ retryTimers = 0
  /\ observerOn = TRUE
  /\ resizeOn = TRUE
  /\ intervalOn = TRUE
  /\ warmupOn = TRUE
  /\ buttonPosition = NoPosition
  /\ polls = 0
  /\ invoked = FALSE
  /\ fedS = Empty
  /\ sentS = Empty
  /\ fwdLen = 0
  /\ oldFwd = 0
  /\ phase = 0
  /\ resentOld = FALSE
  /\ clickOdd = FALSE
  /\ deadClick = FALSE
  /\ startedInSession = FALSE
  /\ joined = Empty
  /\ attached = FALSE
  /\ fields = [f \in Fields |-> Empty]
  /\ lastInputValue = Empty
  /\ timers = {}
  /\ debounceTimer = NoTimer

(***************************************************************************)
(* handleClick, with startListening / stopListening up to the setTimeout,  *)
(* and the synchronous re-render React makes after a click handler         *)
(***************************************************************************)
stopListening ==
  /\ engine' = IF recognitionRef THEN EngineStop(engine) ELSE engine
  /\ isListening' = FALSE
  /\ isStartingRef' = FALSE
  /\ startedInSession' = FALSE
  /\ UNCHANGED <<error, startTimers>>

\* startListening as called from a render in which isListening was isL
startListening(isL) ==
  IF ~recognitionRef
  THEN /\ error' = ErrUnavailable
       /\ UNCHANGED <<engine, startTimers>>
  ELSE IF isStartingRef \/ isL
  THEN UNCHANGED <<engine, error, startTimers>>
  ELSE /\ startTimers < MaxTimers
       /\ engine' = EngineStop(engine)
       /\ startTimers' = startTimers + 1
       /\ UNCHANGED error

handleClick ==
  IF rIsListening
  THEN /\ stopListening
       /\ Commit(FALSE, transcript, Empty, fwdLen, fwdLen, 1, FALSE)
  ELSE /\ startListening(rIsListening)
       /\ UNCHANGED <<isListening, isStartingRef, startedInSession>>
       /\ Commit(isListening, transcript, Empty, fwdLen, oldFwd,
                 IF phase >= 1 THEN 2 ELSE phase, FALSE)

\* a click on the button; a disabled button dispatches no click event
Click ==
  /\ UNCHANGED patchVars
  /\ mounted
  /\ IF ButtonDisabled
     THEN /\ deadClick' = TRUE
          /\ UNCHANGED <<hookVars, invoked, sentS, fwdLen, oldFwd, phase,
                         resentOld, startedInSession>>
     ELSE /\ handleClick
          /\ UNCHANGED <<supported, mounted, transcript, retryTimers,
                         deadClick>>
  /\ UNCHANGED <<posVars, fedS, joined>>

(***************************************************************************)
(* The 50 ms callback of startListening; msg is what start() does          *)
(***************************************************************************)
StartDelayFire(msg) ==
  /\ UNCHANGED patchVars
  /\ startTimers > 0
  /\ startTimers' = startTimers - 1
  /\ IF ~recognitionRef \/ isStartingRef
     THEN UNCHANGED <<engine, isListening, transcript, error, isStartingRef,
                      retryTimers, fedS, sentS, fwdLen, oldFwd,
                      startedInSession>>
     ELSE /\ msg \in EngineStart(engine)
          /\ transcript' = SetState(transcript, Empty)
          /\ fedS' = SetState(fedS, Empty)
          /\ sentS' = SetState(sentS, Empty)
          /\ fwdLen' = SetState(fwdLen, 0)
          /\ oldFwd' = SetState(oldFwd, 0)
          /\ startedInSession' = (startedInSession \/ msg = Empty)
          /\ IF msg = Empty
             THEN /\ engine' = "running"
                  /\ error' = SetState(error, ErrNull)
                  /\ isStartingRef' = TRUE
                  /\ isListening' = SetState(isListening, TRUE)
                  /\ UNCHANGED retryTimers
             ELSE IF IsAbortedMessage(msg)
             THEN /\ retryTimers < MaxRetries
                  /\ retryTimers' = retryTimers + 1
                  /\ error' = SetState(error, ErrNull)
                  /\ isStartingRef' = TRUE
                  /\ isListening' = SetState(isListening, TRUE)
                  /\ UNCHANGED engine
             ELSE /\ error' = SetState(error, ErrFailedStart)
                  /\ isListening' = SetState(isListening, FALSE)
                  /\ isStartingRef' = FALSE
                  /\ UNCHANGED <<engine, retryTimers>>
  /\ UNCHANGED <<supported, mounted, rIsListening, rTranscript,
                 lastTranscriptRef, posVars, invoked, phase, resentOld,
                 clickOdd, deadClick>>

(***************************************************************************)
(* The 100 ms retry callback; msg is what start() does                     *)
(***************************************************************************)
RetryFire(msg) ==
  /\ UNCHANGED patchVars
  /\ retryTimers > 0
  /\ retryTimers' = retryTimers - 1
  /\ IF recognitionRef /\ ~isStartingRef
     THEN /\ msg \in EngineStart(engine)
          /\ startedInSession' = (startedInSession \/ msg = Empty)
          /\ IF msg = Empty
             THEN /\ engine' = "running"
                  /\ UNCHANGED <<error, isListening, isStartingRef>>
             ELSE IF ~IsAbortedMessage(msg)
             THEN /\ error' = SetState(error, ErrFailedStart)
                  /\ isListening' = SetState(isListening, FALSE)
                  /\ isStartingRef' = FALSE
                  /\ UNCHANGED engine
             ELSE /\ isListening' = SetState(isListening, FALSE)
                  /\ isStartingRef' = FALSE
                  /\ error' = SetState(error, ErrNull)
                  /\ UNCHANGED engine
     ELSE UNCHANGED <<engine, isListening, error, isStartingRef,
                      startedInSession>>
  /\ UNCHANGED <<supported, mounted, transcript, rIsListening, rTranscript,
                 lastTranscriptRef, startTimers, posVars, invoked, fedS, sentS,
                 fwdLen, oldFwd, phase, resentOld, clickOdd, deadClick, joined>>

(***************************************************************************)
(* The engine's events and their listeners                                 *)
(***************************************************************************)
\* the non-blank text of an event's final results
RECURSIVE FinalText(_)
FinalText(ev) ==
  IF ev = Empty THEN Empty
  ELSE (IF Head(ev).isFinal THEN NoSpace(Head(ev).transcript) ELSE Empty)
       \o FinalText(Tail(ev))

EngineResult(ev) ==
  /\ UNCHANGED patchVars
  /\ engine \in {"running", "stopping"}
  /\ Len(ResultTranscript(transcript, ev)) <= MaxTranscript
  /\ transcript' = SetState(transcript, ResultTranscript(transcript, ev))
  /\ fedS' = SetState(fedS, fedS \o FinalText(ev))
  /\ UNCHANGED <<supported, mounted, engine, isListening, error, rIsListening,
                 rTranscript, isStartingRef, lastTranscriptRef, startTimers,
                 retryTimers, posVars, invoked, sentS, fwdLen, oldFwd, phase,
                 resentOld, clickOdd, deadClick, startedInSession>>

\* the error listener without its isStartingRef.current = false
EngineErrorKeepsGuard(code) ==
  /\ UNCHANGED patchVars
  /\ engine \in {"running", "stopping"}
  /\ engine' = "ending"
  /\ error' = SetState(error, ErrorAfter(code))
  /\ isListening' = SetState(isListening, FALSE)
  /\ startedInSession' = FALSE
  /\ UNCHANGED <<supported, mounted, transcript, rIsListening, rTranscript,
                 isStartingRef, lastTranscriptRef, startTimers, retryTimers,
                 posVars, invoked, fedS, sentS, fwdLen, oldFwd, phase,
                 resentOld, clickOdd, deadClick, joined>>

EngineError(code) ==
  /\ UNCHANGED patchVars
  /\ engine \in {"running", "stopping"}
  /\ engine' = "ending"
  /\ error' = SetState(error, ErrorAfter(code))
  /\ isListening' = SetState(isListening, FALSE)
  /\ isStartingRef' = FALSE
  /\ startedInSession' = FALSE
  /\ UNCHANGED <<supported, mounted, transcript, rIsListening, rTranscript,
                 lastTranscriptRef, startTimers, retryTimers, posVars, invoked,
                 fedS, sentS, fwdLen, oldFwd, phase, resentOld, clickOdd,
                 deadClick, joined>>

EngineEnd ==
  /\ UNCHANGED patchVars
  /\ engine \in {"running", "stopping", "ending"}
  /\ engine' = "idle"
  /\ isListening' = SetState(isListening, FALSE)
  /\ isStartingRef' = FALSE
  /\ startedInSession' = FALSE
  /\ UNCHANGED <<supported, mounted, transcript, error, rIsListening,
                 rTranscript, lastTranscriptRef, startTimers, retryTimers,
                 posVars, invoked, fedS, sentS, fwdLen, oldFwd, phase,
                 resentOld, clickOdd, deadClick, joined>>

(***************************************************************************)
(* Renders                                                                 *)
(***************************************************************************)
\* React renders the queued state updates and runs the effects
Render ==
  /\ UNCHANGED patchVars
  /\ mounted
  /\ rIsListening # isListening \/ rTranscript # transcript
  /\ Commit(isListening, transcript, lastTranscriptRef, fwdLen, oldFwd, phase,
            FALSE)
  /\ UNCHANGED <<supported, mounted, engine, isListening, transcript, error,
                 isStartingRef, startTimers, retryTimers, posVars, fedS,
                 clickOdd, deadClick, startedInSession, joined>>

\* the parent renders with a new onTranscriptUpdate: the effect runs again
Rerender ==
  /\ UNCHANGED patchVars
  /\ mounted
  /\ Commit(isListening, transcript, lastTranscriptRef, fwdLen, oldFwd, phase,
            TRUE)
  /\ UNCHANGED <<supported, mounted, engine, isListening, transcript, error,
                 isStartingRef, startTimers, retryTimers, posVars, fedS,
                 clickOdd, deadClick, startedInSession, joined>>

(***************************************************************************)
(* Unmount: the cleanups of the hook's and of the positioning effect       *)
(***************************************************************************)
Unmount ==
  /\ UNCHANGED patchVars
  /\ mounted
  /\ mounted' = FALSE
  /\ engine' = IF recognitionRef THEN EngineStop(engine) ELSE engine
  /\ observerOn' = FALSE
  /\ resizeOn' = FALSE
  /\ intervalOn' = FALSE
  /\ warmupOn' = FALSE
  \* the component's state and the button's refs are discarded
  /\ buttonPosition' = NoPosition
  /\ UNCHANGED polls
  /\ isListening' = FALSE
  /\ transcript' = Empty
  /\ error' = ErrNull
  /\ rIsListening' = FALSE
  /\ rTranscript' = Empty
  /\ lastTranscriptRef' = Empty
  /\ fedS' = Empty
  /\ sentS' = Empty
  /\ fwdLen' = 0
  /\ oldFwd' = 0
  /\ phase' = 0
  /\ UNCHANGED <<supported, isStartingRef, startTimers, retryTimers, invoked,
                 resentOld, clickOdd, deadClick, startedInSession, joined>>

(***************************************************************************)
(* The positioning effect of VoiceInputButton                              *)
(***************************************************************************)
\* findWrapperAndPositionButton, with w what the queries find
findWrapperAndPositionButton(w) ==
  buttonPosition' =
    IF w.found
    THEN SetState(buttonPosition,
                  [set |-> TRUE, right |-> w.right + RightOffset,
                   bottom |-> w.bottom + BottomOffset])
    ELSE buttonPosition

\* positionStyle, in px
positionStyle ==
  IF buttonPosition.set
  THEN [right |-> buttonPosition.right, bottom |-> buttonPosition.bottom]
  ELSE [right |-> DefaultRight, bottom |-> DefaultBottom]

\* a tick of the interval; the tick due after the 10 s timeout does not come
\* before the timeout's callback
Poll(w) ==
  /\ intervalOn
  /\ polls < MaxPolls
  /\ warmupOn => (polls + 1) * PollMs <= WarmupMs
  /\ polls' = polls + 1
  /\ findWrapperAndPositionButton(w)
  /\ UNCHANGED <<observerOn, resizeOn, intervalOn, warmupOn>>
  /\ UNCHANGED <<hookVars, histVars, patchVars>>

\* the 10 s callback without its clearInterval
WarmupFireKeepsInterval ==
  /\ warmupOn
  /\ warmupOn' = FALSE
  /\ UNCHANGED <<observerOn, resizeOn, intervalOn, buttonPosition, polls>>
  /\ UNCHANGED <<hookVars, histVars, patchVars>>

\* the 10 s callback: clearInterval(interval)
WarmupFire ==
  /\ warmupOn
  /\ warmupOn' = FALSE
  /\ intervalOn' = FALSE
  /\ UNCHANGED <<observerOn, resizeOn, buttonPosition, polls>>
  /\ UNCHANGED <<hookVars, histVars, patchVars>>

\* the MutationObserver's callback
Mutation(w) ==
  /\ observerOn
  /\ findWrapperAndPositionButton(w)
  /\ UNCHANGED <<observerOn, resizeOn, intervalOn, warmupOn, polls>>
  /\ UNCHANGED <<hookVars, histVars, patchVars>>

\* the window's resize listener
Resize(w) ==
  /\ resizeOn
  /\ findWrapperAndPositionButton(w)
  /\ UNCHANGED <<observerOn, resizeOn, intervalOn, warmupOn, polls>>
  /\ UNCHANGED <<hookVars, histVars, patchVars>>

\* the positioning effect alone, up to the unmount
PositionNext ==
  \/ \E w \in Wrappers : Poll(w)
  \/ WarmupFire
  \/ \E w \in Wrappers : Mutation(w)
  \/ \E w \in Wrappers : Resize(w)
  \/ Unmount

SpecPosition == Init /\ [][PositionNext]_vars

(***************************************************************************)
(* The dictation patch (layout.tsx)                                        *)
(***************************************************************************)
\* attachListeners finds the openai-chatkit element and adds the listeners
Attach ==
  /\ ~attached
  /\ attached' = TRUE
  /\ UNCHANGED <<fields, lastInputValue, timers, debounceTimer>>
  /\ UNCHANGED <<hookVars, posVars, histVars>>

\* the id setTimeout returns: one no pending timer has
NewTimerId(pend) ==
  CHOOSE i \in 1..MaxPending :
    /\ \A t \in pend : t.id # i
    /\ \A j \in 1..MaxPending : (\A t \in pend : t.id # j) => i <= j

\* handleInput without its clearTimeout
handleInputNoClear(target, kind, pend) ==
  IF attached
  THEN /\ \E i \in 1..MaxPending : \A t \in pend : t.id # i
       /\ timers' = pend \cup {[id |-> NewTimerId(pend), target |-> target,
                                 kind |-> kind]}
       /\ debounceTimer' = NewTimerId(pend)
  ELSE /\ timers' = pend
       /\ UNCHANGED debounceTimer

\* handleInput up to the setTimeout, with pend the callbacks pending when the
\* event arrives: clearTimeout(debounceTimer), then a new timer for the
\* event's target
handleInput(target, kind, pend) ==
  IF attached
  THEN LET kept == {t \in pend : t.id # debounceTimer} IN
       /\ timers' = kept \cup {[id |-> NewTimerId(kept), target |-> target,
                                 kind |-> kind]}
       /\ debounceTimer' = NewTimerId(kept)
  ELSE /\ timers' = pend
       /\ UNCHANGED debounceTimer

\* typing or dictation changes a field: an input event
UserInput(f, v) ==
  /\ v # fields[f]
  /\ fields' = [fields EXCEPT ![f] = v]
  /\ handleInput(f, "user", timers)
  /\ UNCHANGED <<attached, lastInputValue>>
  /\ UNCHANGED <<hookVars, posVars, histVars>>

\* a beforeinput event: the field still holds its old text
BeforeInput(f) ==
  /\ handleInput(f, "user", timers)
  /\ UNCHANGED <<attached, fields, lastInputValue>>
  /\ UNCHANGED <<hookVars, posVars, histVars>>

\* finalValue.slice(lastInputValue.length)
NewPart(finalValue, last) == Slice(finalValue, Len(last))

\* the duplicate test with the split count off by one
IsDuplicateOffByOne(finalValue, newPart) ==
  \/ Includes(finalValue, newPart \o newPart)
  \/ (Len(newPart) > 0 /\ SplitLength(finalValue, newPart) > 1)

\* the duplicate test of the debounce callback
IsDuplicate(finalValue, newPart) ==
  \/ Includes(finalValue, newPart \o newPart)
  \/ (Len(newPart) > 0 /\ SplitLength(finalValue, newPart) > 2)

\* cleanValue without the new part
CleanValueCommitted(last, newPart) == last

\* cleanValue
CleanValue(last, newPart) == last \o newPart

\* the debounce callback without its lastInputValue = cleanValue
DebounceFireKeepsCommitted(t) ==
  /\ t \in timers
  /\ LET finalValue == fields[t.target]
         newPart == NewPart(finalValue, lastInputValue) IN
     IF /\ lastInputValue # Empty
        /\ Len(finalValue) > Len(lastInputValue)
        /\ IsDuplicate(finalValue, newPart)
     THEN \* the field is rewritten and an input event dispatched on it, which
          \* handleInput handles before dispatchEvent returns
          /\ fields' = [fields EXCEPT
                          ![t.target] = CleanValue(lastInputValue, newPart)]
          /\ handleInput(t.target, "synthetic", timers \ {t})
          /\ UNCHANGED lastInputValue
     ELSE /\ lastInputValue' = finalValue
          /\ timers' = timers \ {t}
          /\ debounceTimer' = IF debounceTimer = t.id THEN NoTimer
                               ELSE debounceTimer
          /\ UNCHANGED fields
  /\ UNCHANGED attached
  /\ UNCHANGED <<hookVars, posVars, histVars>>

\* the debounce callback t, 50 ms after the event that set it; a timer that
\* has fired is pending no more, and its id in debounceTimer is as good as null
DebounceFire(t) ==
  /\ t \in timers
  /\ LET finalValue == fields[t.target]
         newPart == NewPart(finalValue, lastInputValue) IN
     IF /\ lastInputValue # Empty
        /\ Len(finalValue) > Len(lastInputValue)
        /\ IsDuplicate(finalValue, newPart)
     THEN \* the field is rewritten and an input event dispatched on it, which
          \* handleInput handles before dispatchEvent returns
          /\ fields' = [fields EXCEPT
                          ![t.target] = CleanValue(lastInputValue, newPart)]
          /\ handleInput(t.target, "synthetic", timers \ {t})
          /\ lastInputValue' = CleanValue(lastInputValue, newPart)
     ELSE /\ lastInputValue' = finalValue
          /\ timers' = timers \ {t}
          /\ debounceTimer' = IF debounceTimer = t.id THEN NoTimer
                               ELSE debounceTimer
          /\ UNCHANGED fields
  /\ UNCHANGED attached
  /\ UNCHANGED <<hookVars, posVars, histVars>>

PatchNext ==
  \/ Attach
  \/ \E f \in Fields, v \in Values : UserInput(f, v)
  \/ \E f \in Fields : BeforeInput(f)
  \/ \E t \in timers : DebounceFire(t)

\* the page's script alone, beside a mounted component in a supporting browser
PatchInit == Init /\ supported

SpecPatch == PatchInit /\ [][PatchNext]_vars

\* the events: the user's clicks, the timers, the engine, the unmount
EventNext ==
  \/ Click /\ UNCHANGED clickOdd
  \/ \E msg \in StartOutcomes : StartDelayFire(msg) /\ UNCHANGED joined
  \/ \E msg \in StartOutcomes : RetryFire(msg)
  \/ \E ev \in ResultEvents : EngineResult(ev) /\ UNCHANGED joined
  \/ \E code \in ErrorCodes : EngineError(code)
  \/ EngineEnd
  \/ Unmount

Next ==
  \/ EventNext
  \/ Render
  \/ Rerender

Spec == Init /\ [][Next]_vars

\* the queued state updates have been rendered
Rendered == rIsListening = isListening /\ rTranscript = transcript

\* the parent keeps passing the same onTranscriptUpdate, and React renders
\* the updates an event queued before the next event is handled
PromptNext ==
  \/ Rendered /\ Click /\ UNCHANGED clickOdd
  \/ Rendered /\ \E msg \in StartOutcomes :
                    StartDelayFire(msg) /\ UNCHANGED joined
  \/ Rendered /\ \E msg \in StartOutcomes : RetryFire(msg)
  \/ Rendered /\ \E ev \in ResultEvents : EngineResult(ev) /\ UNCHANGED joined
  \/ Rendered /\ \E code \in ErrorCodes : EngineError(code)
  \/ Rendered /\ EngineEnd
  \/ Rendered /\ Unmount
  \/ Render

SpecPrompt == Init /\ [][PromptNext]_vars

\* as SpecPrompt, with the clicks counted, an engine that raises no failure
\* and ends only when stopped, and no unmount
ToggleNext ==
  \/ Rendered /\ Click /\ clickOdd' = ~clickOdd
  \/ Rendered /\ StartDelayFire(Empty) /\ UNCHANGED joined
  \/ Rendered /\ \E ev \in ResultEvents : EngineResult(ev) /\ UNCHANGED joined
  \/ Rendered /\ engine = "stopping" /\ EngineEnd
  \/ Render

SpecToggle == Init /\ [][ToggleNext]_vars

\* longest joined text of final results recorded
MaxJoined == 5

\* the texts of an event's final results, joined by single blanks
RECURSIVE JoinFinals(_)
JoinFinals(ev) ==
  IF ev = Empty THEN Empty
  ELSE IF ~Head(ev).isFinal THEN JoinFinals(Tail(ev))
  ELSE IF ~HasFinalResults(Tail(ev)) THEN Head(ev).transcript
  ELSE Head(ev).transcript \o <<" ">> \o JoinFinals(Tail(ev))

\* the joined final results once those of ev have been received
Joined(j, ev) ==
  IF ~HasFinalResults(ev) THEN j
  ELSE IF j = Empty THEN JoinFinals(ev)
  ELSE j \o <<" ">> \o JoinFinals(ev)

\* as SpecPrompt without the unmount, with the final results since the last
\* start recorded as the engine delivered them
SessionNext ==
  \/ Rendered /\ Click /\ UNCHANGED clickOdd
  \/ Rendered /\ \E msg \in StartOutcomes :
                    /\ StartDelayFire(msg)
                    /\ joined' = IF recognitionRef /\ ~isStartingRef
                                 THEN Empty ELSE joined
  \/ Rendered /\ \E msg \in StartOutcomes : RetryFire(msg)
  \/ Rendered /\ \E ev \in ResultEvents :
                    /\ EngineResult(ev)
                    /\ Len(Joined(joined, ev)) <= MaxJoined
                    /\ joined' = Joined(joined, ev)
  \/ Rendered /\ \E code \in ErrorCodes : EngineError(code)
  \/ Rendered /\ EngineEnd
  \/ Render

SpecSession == Init /\ [][SessionNext]_vars

\* this step's timer callback invokes recognition.start()
StartInvoked ==
  /\ recognitionRef /\ ~isStartingRef
  /\ \/ \E msg \in StartOutcomes : StartDelayFire(msg)
     \/ \E msg \in StartOutcomes : RetryFire(msg)

(***************************************************************************)
(* Claims                                                                  *)
(***************************************************************************)

\* C1: within a listening session, once the transcript effect has run on the
\* latest transcript, the text passed to onTranscriptUpdate since start() is,
\* blanks apart, the text of the final results since start(): nothing twice,
\* nothing skipped.
C1_DeltasAreTheFinals ==
  (mounted /\ engine = "running" /\ rTranscript = transcript) => sentS = fedS

\* C2: after a stop click followed by a start click, text forwarded before
\* the stop is never passed to onTranscriptUpdate again.
C2_NoResendAfterRestart == ~resentOld

\* the text of callback t's field beyond the last committed value's length
FieldSuffix(t) == Slice(fields[t.target], Len(lastInputValue))

\* C3: when the debounce fires with a non-empty last committed value and a
\* longer field value whose new suffix is repeated, the field is rewritten
\* to a value without the repetition; committed "Bonjour" and a field holding
\* "BonjourBonjour" leave the field holding "Bonjour".
C3_DuplicateDropped ==
  [][\A t \in timers :
       (/\ DebounceFire(t)
        /\ lastInputValue # Empty
        /\ Len(fields[t.target]) > Len(lastInputValue)
        /\ Includes(fields[t.target], FieldSuffix(t) \o FieldSuffix(t)))
         => /\ ~Includes(fields'[t.target], FieldSuffix(t) \o FieldSuffix(t))
            /\ (lastInputValue = Bonjour
                  /\ fields[t.target] = Bonjour \o Bonjour)
                 => fields'[t.target] = Bonjour]_vars

\* the number of places at which p occurs in s
Occurrences(s, p) ==
  Cardinality({i \in 1..Len(s) :
                 i + Len(p) - 1 <= Len(s) /\ SubSeq(s, i, i + Len(p) - 1) = p})

\* the new suffix of callback t's field is not repeated: doubled it is no
\* part of the value, and it occurs at most once in the value
C4_NotRepeated(t) ==
  /\ ~Includes(fields[t.target], FieldSuffix(t) \o FieldSuffix(t))
  /\ Occurrences(fields[t.target], FieldSuffix(t)) <= 1

\* C4: when the debounce fires and the field's new suffix is not repeated,
\* the field is left unchanged, no input event is dispatched (no debounce is
\* pending afterwards) and the last committed value becomes the field's value.
C4_UnrepeatedLeftAlone ==
  [][\A t \in timers :
       (DebounceFire(t) /\ C4_NotRepeated(t))
         => /\ fields' = fields
            /\ timers' = {}
            /\ lastInputValue' = fields[t.target]]_vars

\* "Hello world" has been committed after "Hello" and is still in the field
C4_Witness ==
  /\ attached
  /\ timers = {}
  /\ lastInputValue = HelloWorld
  /\ fields["input"] = HelloWorld

\* C5: where neither constructor exists the button is disabled, and
\* onTranscriptUpdate is never called, isListening never becomes true and the
\* transcript stays empty, whatever is clicked or rendered.
C5_UnsupportedIsInert ==
  ~supported =>
    /\ ButtonDisabled
    /\ ~invoked
    /\ ~isListening /\ ~rIsListening
    /\ transcript = Empty /\ rTranscript = Empty
    /\ engine = "idle" /\ startTimers = 0

\* the disabled button has been clicked in an unsupporting browser
C5_Witness == ~supported /\ deadClick /\ error = ErrUnsupported

\* the codes the policy ignores
C6_Benign == {Aborted, NoSpeech, AudioCapture}

\* C6: after the error listener has run on a mounted component the error
\* message is null if the event's code is benign, and non-null otherwise.
C6_ErrorPolicy ==
  [][\A code \in ErrorCodes :
       (mounted /\ EngineError(code))
         => ((code \in C6_Benign) <=> (error' = ErrNull))]_vars

\* a non-benign error event has been handled
C6_Witness == mounted /\ error = ErrEngine(NotAllowed) /\ ~isListening

\* C7: the retry callback scheduled after an "aborted" start() failure makes
\* the one further start() attempt.
C7_RetryAttemptsStart ==
  [][(\E msg \in StartOutcomes : RetryFire(msg))
       => (recognitionRef /\ ~isStartingRef)]_vars

\* C8: start() is not invoked again while the session a start() opened has
\* not ended by an end event, an error event or stopListening.
C8_NoOverlappingStart == [][StartInvoked => ~startedInSession]_vars

\* C9: with a supported engine that raises no failure, once all timers have
\* fired and the state is rendered, the session is listening iff the number
\* of clicks is odd.
C9_ClicksToggle ==
  (supported /\ startTimers = 0 /\ retryTimers = 0 /\ rIsListening = isListening)
    => (isListening <=> clickOdd)

\* C10: after the unmount cleanup no timer callback invokes start(), and the
\* positioning observer, resize listener, interval and warm-up timeout are off.
C10_CleanupStopsEverything ==
  /\ [](~mounted => ~(observerOn \/ resizeOn \/ intervalOn \/ warmupOn))
  /\ [][~mounted => ~StartInvoked]_vars

\* the message of an engine error or of a failed start is on display
ErrorShown == mounted /\ error.kind \in {"engine", "failed-start"}

\* C11: while the message of a non-benign engine error or of a non-aborted
\* start() exception is shown, isListening is false and the starting guard is
\* clear; the next click then passes startListening's guard and schedules the
\* start, and the start callback invokes start() after clearing the message,
\* which stays null unless that very start() fails again.
C11_ErrorThenRetry ==
  /\ [](ErrorShown => (~isListening /\ ~isStartingRef))
  /\ [][(ErrorShown /\ Rendered /\ startTimers < MaxTimers /\ Click)
          => startTimers' = startTimers + 1]_vars
  /\ [][\A msg \in StartOutcomes :
          (ErrorShown /\ StartDelayFire(msg))
            => /\ StartInvoked
               /\ error' = IF msg = Empty \/ IsAbortedMessage(msg)
                            THEN ErrNull ELSE ErrFailedStart]_vars

\* the user has clicked again while a network error is on display
C11_Witness ==
  /\ error = ErrEngine(Network) /\ mounted /\ Rendered
  /\ ~isListening /\ startTimers = 1 /\ engine = "idle"

\* s is a prefix of t
IsPrefix(s, t) == Len(s) <= Len(t) /\ SubSeq(t, 1, Len(s)) = s

C13_RewriteOnlyRemoves ==
  [][\A t \in timers :
       DebounceFire(t)
         => \A i \in 1..Len(fields'[t.target]) :
              /\ i <= Len(fields[t.target])
              /\ fields'[t.target][i] = fields[t.target][i]]_vars

\* C14: lastTranscriptRef.current is the empty string whenever a timer
\* callback invokes start(), and it is the empty string once a listening
\* session has been stopped by a click, by an end event or by an error event.
C14_MarkerResetOnStartAndStop ==
  /\ [][(mounted /\ StartInvoked) => lastTranscriptRef = Empty]_vars
  /\ [][(mounted /\ isListening
          /\ (Click \/ EngineEnd \/ \E code \in ErrorCodes : EngineError(code)))
          => lastTranscriptRef' = Empty]_vars

\* C15: whenever a timer callback's start() call starts the engine, the
\* transcript is the empty string and the error is null once the callback
\* has run, before any result of the new session is processed.
C15_ResetOnEachStart ==
  [][(mounted /\ StartInvoked /\ engine' = "running" /\ engine # "running")
       => (transcript' = Empty /\ error' = ErrNull)]_vars

\* C16: once the listeners are attached, at most one debounce callback is
\* pending at any time, and after every input or beforeinput event on an
\* editable element the one pending callback is the one that event set, for
\* that event's target: a burst of events is followed by one comparison,
\* against the target of the last of them.
C16_OneDebouncePending ==
  /\ [](Cardinality(timers) <= 1)
  /\ [][\A f \in Fields :
          (attached /\ (BeforeInput(f) \/ UserInput(f, fields'[f])))
            => timers' = {[id |-> debounceTimer', target |-> f,
                           kind |-> "user"]}]_vars

\* an event on the editable element has replaced the callback pending for
\* the input element, whose text has not been compared yet
C16_Witness ==
  /\ \E t \in timers : t.target = "editable"
  /\ fields["input"] # Empty /\ fields["editable"] # Empty
  /\ lastInputValue = Empty

\* C17: the interval only ticks while the 10 s timeout is pending, and no
\* later than 10 s after mount; the observer and the resize listener stay on
\* until the unmount; while no position has been computed the button has the
\* default offsets, and a computed position never reverts to null while the
\* component is mounted.
C17_PollingIsBounded ==
  /\ [][(\E w \in Wrappers : Poll(w))
          => (warmupOn /\ polls' * PollMs <= WarmupMs)]_vars
  /\ [](~warmupOn => ~intervalOn)
  /\ [](mounted => (observerOn /\ resizeOn))
  /\ [](~buttonPosition.set
          => positionStyle = [right |-> DefaultRight, bottom |-> DefaultBottom])
  /\ [][(buttonPosition.set /\ mounted') => buttonPosition'.set]_vars

\* the warm-up is over after its twenty ticks, the last of which resolved
\* the position
C17_Witness ==
  /\ mounted /\ ~warmupOn /\ polls * PollMs = WarmupMs
  /\ buttonPosition = [set |-> TRUE, right |-> 8 + RightOffset,
                        bottom |-> BottomOffset]

\* C18: whenever a timer callback of the hook starts the engine, isListening
\* is true and the starting guard is set: the engine never runs, started by
\* this code, while the UI shows the not-listening state.
C18_StartedOnlyWhileListening ==
  [][(mounted /\ StartInvoked /\ engine' = "running" /\ engine # "running")
       => (isListening' /\ isStartingRef')]_vars

\* C19: once every timer of startListening has fired, with the engine idle
\* and so delivering no event, isListening and the starting guard are false:
\* a start() that threw leaves no listening state that only the user can end.
C19_NoStuckListening ==
  (mounted /\ Rendered /\ startTimers = 0 /\ retryTimers = 0
     /\ engine = "idle")
    => (~isListening /\ ~isStartingRef)

C21_QuiescentAfterRewrite ==
  /\ [][\A t \in timers :
          (DebounceFire(t) /\ (fields' # fields \/ timers' # {}))
            => \E u \in timers' :
                 /\ timers' = {u}
                 /\ u.kind = "synthetic" /\ u.target = t.target
                 /\ fields'[u.target] = lastInputValue']_vars
  /\ [](\A t \in timers :
          t.kind = "synthetic" => fields[t.target] = lastInputValue)
  /\ [][\A t \in timers :
          (t.kind = "synthetic" /\ DebounceFire(t))
            => /\ fields' = fields
               /\ lastInputValue' = lastInputValue
               /\ timers' = {}]_vars

\* the comparison that follows the rewrite of "BonjourBonjour" after
\* "Hello world" has been made, and no timer is left
C21_Witness ==
  /\ timers = {} /\ debounceTimer = NoTimer
  /\ fields["input"] = HelloWorld \o <<"o", "u", "r">>
  /\ lastInputValue = fields["input"]
  /\ fields["editable"] = HelloWorld

====
